---- MODULE Spec2Model ----
(***************************************************************************)
(* Model of the review-analysis pipeline of reviews/analysis.py and of the *)
(* /analyze/ endpoint of reviews/views.py.                                 *)
(*                                                                         *)
(* A string is a sequence of atoms.  Text that the code inspects character *)
(* by character (reviews, classifier labels, summaries, generative         *)
(* responses, keywords, "None") is written one character per atom.  The    *)
(* long message literals of the program, which the code only compares and  *)
(* concatenates whole, are one atom each.                                  *)
(***************************************************************************)
EXTENDS Integers, Sequences, FiniteSets

VARIABLES gemini_model, pc, reviews_text, idx, predicted_ratings,
          positive_reviews, negative_reviews, overall_rating_suggestion,
          summarized_praise, summarized_complaints, result, calls,
          response_text, parsed

vars == <<gemini_model, pc, reviews_text, idx, predicted_ratings,
          positive_reviews, negative_reviews, overall_rating_suggestion,
          summarized_praise, summarized_complaints, result, calls,
          response_text, parsed>>

(***************************************************************************)
(* Bounds of the model.                                                    *)
(***************************************************************************)
MaxReviews == 2
MaxLines == 3
MaxRatings == 4

(***************************************************************************)
(* Generic helpers on sequences.                                           *)
(***************************************************************************)
\* s[1] + ... + s[n]
RECURSIVE SumTo(_, _)
SumTo(s, n) == IF n = 0 THEN 0 ELSE s[n] + SumTo(s, n - 1)

SumSeq(s) == SumTo(s, Len(s))

RECURSIVE SeqsUpTo(_, _)
SeqsUpTo(S, n) ==
  IF n = 0 THEN {<<>>}
  ELSE LET shorter == SeqsUpTo(S, n - 1)
       IN  shorter \cup {Append(s, x) : s \in {t \in shorter : Len(t) = n - 1}, x \in S}

(***************************************************************************)
(* Python string primitives.                                               *)
(***************************************************************************)
Whitespace == {" ", "\n", "\t", "\r"}

\* the first index from `from` on whose character is (in = TRUE) or is not
\* (in = FALSE) in chars; Len(s) + 1 when there is none
FirstIndex(s, from, chars, in) ==
  LET Hit(k) == (s[k] \in chars) = in
  IN  IF \E k \in from..Len(s) : Hit(k)
      THEN CHOOSE k \in from..Len(s) : Hit(k) /\ \A j \in from..(k - 1) : ~Hit(j)
      ELSE Len(s) + 1

\* the last index whose character is not in chars; 0 when there is none
LastIndexNotIn(s, chars) ==
  IF \E k \in 1..Len(s) : s[k] \notin chars
  THEN CHOOSE k \in 1..Len(s) :
         s[k] \notin chars /\ \A j \in (k + 1)..Len(s) : s[j] \in chars
  ELSE 0

\* str.strip(): drop leading and trailing whitespace
Strip(s) == SubSeq(s, FirstIndex(s, 1, Whitespace, FALSE), LastIndexNotIn(s, Whitespace))

\* str.lstrip(chars): drop every leading character that is in chars
LStripChars(s, chars) == SubSeq(s, FirstIndex(s, 1, chars, FALSE), Len(s))

\* re.split / str.split on single-character delimiters: one piece per gap,
\* empty pieces kept
SplitOn(s, delims) ==
  LET at == {k \in 1..Len(s) : s[k] \in delims}
      n == Cardinality(at)
      \* where the j-th delimiter is; 0 before the first, Len(s) + 1 after the last
      Pos(j) == IF j = 0 THEN 0
                ELSE IF j = n + 1 THEN Len(s) + 1
                ELSE CHOOSE d \in at : Cardinality({e \in at : e < d}) = j - 1
  IN  [j \in 1..(n + 1) |-> SubSeq(s, Pos(j - 1) + 1, Pos(j) - 1)]

\* sep.join(parts)
RECURSIVE JoinFrom(_, _, _)
JoinFrom(sep, parts, k) ==
  IF k > Len(parts) THEN <<>>
  ELSE IF k = Len(parts) THEN parts[k]
  ELSE parts[k] \o sep \o JoinFrom(sep, parts, k + 1)

Join(sep, parts) == JoinFrom(sep, parts, 1)

Upper == <<"A","B","C","D","E","F","G","H","I","J","K","L","M","N","O","P","Q","R","S","T","U","V","W","X","Y","Z">>
LowerAlpha == <<"a","b","c","d","e","f","g","h","i","j","k","l","m","n","o","p","q","r","s","t","u","v","w","x","y","z">>
Digits == <<"0","1","2","3","4","5","6","7","8","9">>

\* str.lower(), one character
LowerChar(c) ==
  IF \E k \in 1..Len(Upper) : Upper[k] = c
  THEN LowerAlpha[CHOOSE k \in 1..Len(Upper) : Upper[k] = c]
  ELSE c

Lower(s) == [k \in 1..Len(s) |-> LowerChar(s[k])]

\* kw in s
Contains(s, kw) ==
  \E k \in 1..(Len(s) - Len(kw) + 1) : SubSeq(s, k, k + Len(kw) - 1) = kw

\* s[:n]
Take(s, n) == SubSeq(s, 1, IF Len(s) < n THEN Len(s) ELSE n)

\* str.split(): pieces between runs of whitespace, empty pieces dropped
SplitWhitespace(s) ==
  LET NonEmpty(x) == x # <<>>
  IN  SelectSeq(SplitOn(s, Whitespace), NonEmpty)

\* s.startswith(('*', '-'))
StartsWithAny(s, chars) == s # <<>> /\ s[1] \in chars

\* decimal digits of a natural number
RECURSIVE NatStr(_)
NatStr(n) ==
  IF n < 10 THEN <<Digits[n + 1]>> ELSE NatStr(n \div 10) \o <<Digits[(n % 10) + 1]>>

DigitVal(c) == (CHOOSE k \in 1..10 : Digits[k] = c) - 1

\* the number that the first n digits of s write
RECURSIVE DigitsTo(_, _)
DigitsTo(s, n) == IF n = 0 THEN 0 ELSE 10 * DigitsTo(s, n - 1) + DigitVal(s[n])

DigitsVal(s) == DigitsTo(s, Len(s))

(***************************************************************************)
(* A computation either returns a value or raises.                         *)
(***************************************************************************)
Raised == [raised |-> TRUE, value |-> <<>>]
Ok(v) == [raised |-> FALSE, value |-> v]

(***************************************************************************)
(* Program constants (analysis.py).                                        *)
(***************************************************************************)
NEGATIVE_KEYWORDS ==
  <<<<"b","r","o","k","e","n">>,
    <<"d","a","m","a","g","e","d">>,
    <<"d","e","f","e","c","t","i","v","e">>,
    <<"s","c","r","a","t","c","h","e","d">>,
    <<"w","r","o","n","g"," ","s","i","z","e">>,
    <<"l","a","t","e">>,
    <<"d","e","l","a","y">>,
    <<"m","i","s","s","i","n","g">>,
    <<"f","a","k","e">>,
    <<"c","h","e","a","p">>,
    <<"s","c","a","m">>,
    <<"f","r","a","u","d">>,
    <<"e","x","p","e","n","s","i","v","e">>,
    <<"n","o","t"," ","w","o","r","t","h">>,
    <<"r","e","f","u","n","d">>,
    <<"w","a","s","t","e"," ","o","f"," ","m","o","n","e","y">>>>

SentenceDelims == {".", "!", "?"}
TruncLen == 512
NoneStr == <<"N","o","n","e">>
SUMMARY_ERROR_MSG == <<"Could not generate summary.">>
NO_PRAISE_MSG == <<"No specific praise points found.">>
NO_COMPLAINTS_MSG == <<"No specific complaint points found.">>
UNAVAILABLE_MSG == <<"Gemini model is not available. Please check API key configuration.">>
NOT_ENOUGH_MSG == <<"Not enough specific feedback was provided to generate a recommendation.">>
NOT_GENERATED_MSG == <<"Recommendation could not be generated.">>
API_ERROR_MSG == <<"Could not generate AI recommendation due to an API error.">>
NO_RATING_MSG == <<"Could not determine rating.">>
PROMPT_HEAD == <<"Analyze the following summarized customer feedback and provide a simple to-do list with short, direct action points using easy-to-understand words.">>
PROMPT_PRAISE == <<"\nPositive Summary:\n">>
PROMPT_COMPLAINTS == <<"\nNegative Summary:\n">>
PROMPT_TAIL == <<"\nActionable To-Do List (Start each point with '*'):">>
BulletMarkers == {"*", "-"}
BulletStrip == {"*", "-", " "}

SafetyBlockMsg(block_reason) ==
  <<"Recommendation could not be generated due to a content safety block (">>
    \o block_reason \o <<").">>

(***************************************************************************)
(* Sentence filters and summarization (analysis.py 48-92).                 *)
(***************************************************************************)
\* some keyword occurs in the lower-cased sentence
HasNegativeKeyword(s_clean) ==
  LET lowered == Lower(s_clean)
  IN  \E k \in 1..Len(NEGATIVE_KEYWORDS) : Contains(lowered, NEGATIVE_KEYWORDS[k])

\* the stripped pieces of re.split(r'[.!?]', text), in order
CleanSentences(text) ==
  LET pieces == SplitOn(text, SentenceDelims)
  IN  [k \in 1..Len(pieces) |-> Strip(pieces[k])]

\* those of every text of the list from the k-th on
RECURSIVE CleanSentencesFrom(_, _)
CleanSentencesFrom(feedback_list, k) ==
  IF k > Len(feedback_list) THEN <<>>
  ELSE CleanSentences(feedback_list[k]) \o CleanSentencesFrom(feedback_list, k + 1)

AllCleanSentences(feedback_list) == CleanSentencesFrom(feedback_list, 1)

filter_positive_sentences(feedback_list) ==
  LET Keep(s_clean) == s_clean # <<>> /\ ~HasNegativeKeyword(s_clean)
  IN  SelectSeq(AllCleanSentences(feedback_list), Keep)

filter_negative_sentences(feedback_list) ==
  LET Keep(s_clean) == s_clean # <<>> /\ HasNegativeKeyword(s_clean)
  IN  SelectSeq(AllCleanSentences(feedback_list), Keep)

\* ". ".join(sentences)
TextToSummarize(sentences) == Join(<<".", " ">>, sentences)

\* a slip: the except branch returns the same "None" as an empty sentence set
SummarizerFailureAsNone == NoneStr

\* the except branch of summarize_praises / summarize_pain_points
SummarizerFailure == SUMMARY_ERROR_MSG

\* what summarize_* returns for a non-empty sentence set, given what the
\* summarizer call did (out.raises, or out.summary_text)
SummaryOf(out) ==
  IF out.raises THEN SummarizerFailure ELSE Strip(out.summary_text)

(***************************************************************************)
(* Classification and rating (analysis.py 147-161).                        *)
(***************************************************************************)
\* a slip: the review is passed whole
ClassifierInputWhole(review) == review

\* the text the classifier is called with: review[:512]
ClassifierInput(review) == Take(review, TruncLen)

\* int(s) for a token of decimal digits; anything else raises ValueError
IntOf(tok) ==
  IF tok # <<>> /\ \A k \in 1..Len(tok) : \E d \in 1..10 : Digits[d] = tok[k]
  THEN Ok(DigitsVal(tok))
  ELSE Raised

\* int(result[0]["label"].split()[0]); an empty split raises IndexError
ParseRating(label) ==
  LET toks == SplitWhitespace(label)
  IN  IF toks = <<>> THEN Raised ELSE IntOf(toks[1])

\* what the try block of the loop yields for one classifier outcome
RatingOf(out) == IF out.raises THEN Raised ELSE ParseRating(out.label)

\* a slip: only 5 stars count as positive
IsPositiveStrict(rating) == rating > 4

\* rating >= 4
IsPositive(rating) == rating >= 4

\* statistics.mean: the exact quotient <<sum, count>>; raises on no data
statistics_mean(data) ==
  IF data = <<>> THEN Raised ELSE Ok(<<SumSeq(data), Len(data)>>)

\* a slip: the digits after the second decimal are cut off
HundredthsTruncated(num, den) == (100 * num) \div den

\* the number of hundredths that format spec .2f prints for num/den >= 0:
\* the nearest, a tie (which needs 8 or more ratings) going to the even one
Hundredths(num, den) ==
  LET q == (100 * num) \div den
      r == (100 * num) % den
  IN  IF 2 * r > den \/ (2 * r = den /\ q % 2 = 1) THEN q + 1 ELSE q

\* f"{x:.2f}"
Format2f(num, den) ==
  LET h == Hundredths(num, den)
  IN  NatStr(h \div 100) \o <<".">> \o <<Digits[((h % 100) \div 10) + 1], Digits[(h % 10) + 1]>>

\* a slip: the mean is taken without the test for an empty rating list
OverallRatingUnguarded(ratings) ==
  LET m == statistics_mean(ratings)
  IN  IF m.raised THEN Raised
      ELSE Ok(<<"Approximately ">> \o Format2f(m.value[1], m.value[2])
                \o <<" out of 5 stars.">>)

\* line 161
OverallRating(ratings) ==
  IF ratings # <<>>
  THEN LET m == statistics_mean(ratings)
       IN  IF m.raised THEN Raised
           ELSE Ok(<<"Approximately ">> \o Format2f(m.value[1], m.value[2])
                     \o <<" out of 5 stars.">>)
  ELSE Ok(NO_RATING_MSG)

(***************************************************************************)
(* Recommendation (analysis.py 97-134).                                    *)
(***************************************************************************)
\* a slip: the handle is not tested
GeminiAlwaysAvailable(model) == TRUE

\* not gemini_model
GeminiAvailable(model) == model # "None"

\* a slip: the placeholder is taken for feedback
HasFeedbackAlways(points, placeholder) == points # <<>>

\* praise and praise[0] != NO_PRAISE_MSG
HasFeedback(points, placeholder) == points # <<>> /\ points[1] # placeholder

\* lines 110-121
BuildPrompt(praise, complaints) ==
  LET praise_part ==
        IF HasFeedback(praise, NO_PRAISE_MSG)
        THEN <<PROMPT_PRAISE \o Join(<<"\n">>, praise)>> ELSE <<>>
      complaint_part ==
        IF HasFeedback(complaints, NO_COMPLAINTS_MSG)
        THEN <<PROMPT_COMPLAINTS \o Join(<<"\n">>, complaints)>> ELSE <<>>
  IN  Join(<<"\n">>, <<PROMPT_HEAD>> \o praise_part \o complaint_part \o <<PROMPT_TAIL>>)

\* line 129: the stripped lines that start with a marker
BulletLines(recommendation_text) ==
  LET lines == SplitOn(recommendation_text, {"\n"})
      stripped == [k \in 1..Len(lines) |-> Strip(lines[k])]
      IsBullet(line) == StartsWithAny(line, BulletMarkers)
  IN  SelectSeq(stripped, IsBullet)

\* line 130: point.lstrip('*- ').strip()
CleanPoint(point) == Strip(LStripChars(point, BulletStrip))

\* lines 128-131
ParseRecommendation(text) ==
  LET recommendation_text == Strip(text)
      bullet_points == BulletLines(recommendation_text)
      cleaned_points == [k \in 1..Len(bullet_points) |-> CleanPoint(bullet_points[k])]
  IN  IF Len(cleaned_points) > 0 THEN cleaned_points ELSE <<recommendation_text>>

\* a slip: the two branches of line 126 are exchanged
BlockedResultSwapped(block_reason) ==
  IF block_reason # <<>> THEN <<NOT_GENERATED_MSG>> ELSE <<SafetyBlockMsg(block_reason)>>

\* line 126: a response without parts
BlockedResult(block_reason) ==
  IF block_reason # <<>> THEN <<SafetyBlockMsg(block_reason)>> ELSE <<NOT_GENERATED_MSG>>

\* lines 123-134, given what generate_content did
HandleResponse(out) ==
  IF out.raises THEN <<API_ERROR_MSG>>
  ELSE IF ~out.parts THEN BlockedResult(out.block_reason)
  ELSE IF out.text_raises THEN <<API_ERROR_MSG>>
  ELSE ParseRecommendation(out.text)

\* a slip: no placeholder is substituted
PointsOrNothing(summary, placeholder) ==
  IF summary # NoneStr THEN <<summary>> ELSE <<>>

\* lines 166-167
PointsOf(summary, placeholder) ==
  IF summary # NoneStr THEN <<summary>> ELSE <<placeholder>>

\* lines 171-176
AnalysisResult(praise, complaints, rating, recommendation) ==
  [top_praise_points |-> praise,
   top_complaint_points |-> complaints,
   overall_rating_suggestion |-> rating,
   actionable_recommendation |-> recommendation]

\* line 145
EmptyAnalysis == AnalysisResult(<<>>, <<>>, <<"N/A">>, <<"N/A">>)

\* views.py 31-36
NoReviewsResponse ==
  AnalysisResult(<<>>, <<>>, <<"No reviews to analyze.">>, <<"Submit some reviews first.">>)

(***************************************************************************)
(* Inputs and what the three external services may do.                     *)
(***************************************************************************)
RevPraise == <<"G","r","e","a","t"," ","p","h","o","n","e","."," ","L","o","v","e"," ","i","t","!">>
RevComplaint == <<" ","A","r","r","i","v","e","d"," ","L","A","T","E",".",".","."," ","N","o","t"," ","w","o","r","t","h"," ","i","t"," ">>
\* longer than TruncLen: the complaint lies beyond the first 512 characters
RevLong ==
  <<"N","i","c","e"," ","s","c","r","e","e","n",".">>
    \o [k \in 1..(TruncLen - 12) |-> IF k % 80 = 0 THEN "\n" ELSE " "]
    \o <<"A","r","r","i","v","e","d"," ","b","r","o","k","e","n">>

ReviewPool == {RevPraise, RevComplaint, RevLong}
Inputs == SeqsUpTo(ReviewPool, MaxReviews)

Label5 == <<"5"," ","s","t","a","r","s">>
Label4 == <<"4"," ","s","t","a","r","s">>
Label3 == <<"3"," ","s","t","a","r","s">>
LabelBad == <<"n","e","u","t","r","a","l">>

ClassifierOutcomes ==
  {[raises |-> TRUE, label |-> <<>>]}
    \cup {[raises |-> FALSE, label |-> l] : l \in {Label5, Label4, Label3, LabelBad}}

SummaryOut == <<" ","G","o","o","d"," ","v","a","l","u","e",".","\n">>

SummarizerOutcomes ==
  {[raises |-> TRUE, summary_text |-> <<>>],
   [raises |-> FALSE, summary_text |-> SummaryOut]}

TextBullets == <<"S","u","r","e",":","\n","*"," ","S","h","i","p"," ","f","a","s","t","e","r","\n"," ","-"," ","F","i","x"," ","t","h","e"," ","b","o","x"," ","\n">>

GeminiResponse(parts, block_reason, text, text_raises) ==
  [raises |-> FALSE, parts |-> parts, block_reason |-> block_reason,
   text |-> text, text_raises |-> text_raises]

GeminiOutcomes ==
  {[raises |-> TRUE, parts |-> FALSE, block_reason |-> <<>>, text |-> <<>>,
    text_raises |-> FALSE],
   GeminiResponse(FALSE, <<"SAFETY">>, <<>>, TRUE),
   GeminiResponse(FALSE, <<>>, <<>>, TRUE),
   GeminiResponse(TRUE, <<>>, <<>>, TRUE),
   GeminiResponse(TRUE, <<>>, TextBullets, FALSE)}

\* a local variable not yet assigned
UNSET == <<"<unset>">>
NoResult == [pending |-> TRUE]

\* one external call: the service, the function that made it, what it was
\* given and what it did
Call(svc, from, arg, ret) == [svc |-> svc, from |-> from, arg |-> arg, ret |-> ret]

(***************************************************************************)
(* The state machine.                                                      *)
(***************************************************************************)
\* module load (lines 35-44): the handle is set, or None without a credential
Init ==
  /\ gemini_model \in {"GenerativeModel", "None"}
  /\ pc = "idle"
  /\ reviews_text = <<>>
  /\ idx = 1
  /\ predicted_ratings = <<>>
  /\ positive_reviews = <<>>
  /\ negative_reviews = <<>>
  /\ overall_rating_suggestion = UNSET
  /\ summarized_praise = UNSET
  /\ summarized_complaints = UNSET
  /\ result = NoResult
  /\ calls = <<>>
  /\ response_text = <<>>
  /\ parsed = <<>>

\* analyze_reviews_with_ai, lines 144-147
Enter(reviews) ==
  /\ pc = "idle"
  /\ reviews_text' = reviews
  /\ IF reviews = <<>>
     THEN result' = EmptyAnalysis /\ pc' = "done"
     ELSE result' = result /\ pc' = "classify"
  /\ UNCHANGED <<gemini_model, idx, predicted_ratings, positive_reviews,
                 negative_reviews, overall_rating_suggestion, summarized_praise,
                 summarized_complaints, calls, response_text, parsed>>

\* a direct call of the analysis
analyze_reviews_with_ai == \E reviews \in Inputs : Enter(reviews)

\* the /analyze/ endpoint over the stored reviews (views.py 25-44)
analyze_reviews ==
  \E db \in Inputs :
    IF db = <<>>
    THEN /\ pc = "idle"
         /\ result' = NoReviewsResponse
         /\ pc' = "done"
         /\ UNCHANGED <<gemini_model, reviews_text, idx, predicted_ratings,
                        positive_reviews, negative_reviews,
                        overall_rating_suggestion, summarized_praise,
                        summarized_complaints, calls, response_text, parsed>>
    ELSE Enter(db)

\* one iteration of the loop, lines 148-159
ClassifyReview ==
  /\ pc = "classify"
  /\ \E out \in ClassifierOutcomes :
       LET review == reviews_text[idx]
           rating == RatingOf(out)
       IN  /\ calls' = Append(calls, Call("sentiment", "analyze_reviews_with_ai", ClassifierInput(review), out))
           /\ IF rating.raised
              THEN UNCHANGED <<predicted_ratings, positive_reviews, negative_reviews>>
              ELSE /\ predicted_ratings' = Append(predicted_ratings, rating.value)
                   /\ IF IsPositive(rating.value)
                      THEN /\ positive_reviews' = Append(positive_reviews, review)
                           /\ UNCHANGED negative_reviews
                      ELSE /\ negative_reviews' = Append(negative_reviews, review)
                           /\ UNCHANGED positive_reviews
  /\ idx' = idx + 1
  /\ pc' = IF idx = Len(reviews_text) THEN "summarize_praises" ELSE "classify"
  /\ UNCHANGED <<gemini_model, reviews_text, overall_rating_suggestion,
                 summarized_praise, summarized_complaints, result,
                 response_text, parsed>>

\* lines 161-163: the rating sentence, then summarize_praises
SummarizePraises ==
  /\ pc = "summarize_praises"
  /\ LET rating == OverallRating(predicted_ratings)
         sentences == filter_positive_sentences(positive_reviews)
     IN  IF rating.raised
         THEN /\ pc' = "raised"
              /\ UNCHANGED <<overall_rating_suggestion, summarized_praise, calls>>
         ELSE /\ overall_rating_suggestion' = rating.value
              /\ pc' = "summarize_pain_points"
              /\ IF sentences = <<>>
                 THEN summarized_praise' = NoneStr /\ UNCHANGED calls
                 ELSE \E out \in SummarizerOutcomes :
                        /\ calls' = Append(calls,
                             Call("summarizer", "summarize_praises",
                                  TextToSummarize(sentences), out))
                        /\ summarized_praise' = SummaryOf(out)
  /\ UNCHANGED <<gemini_model, reviews_text, idx, predicted_ratings,
                 positive_reviews, negative_reviews, summarized_complaints,
                 result, response_text, parsed>>

\* line 164: summarize_pain_points
SummarizePainPoints ==
  /\ pc = "summarize_pain_points"
  /\ LET sentences == filter_negative_sentences(negative_reviews)
     IN  IF sentences = <<>>
         THEN summarized_complaints' = NoneStr /\ UNCHANGED calls
         ELSE \E out \in SummarizerOutcomes :
                /\ calls' = Append(calls,
                     Call("summarizer", "summarize_pain_points",
                          TextToSummarize(sentences), out))
                /\ summarized_complaints' = SummaryOf(out)
  /\ pc' = "recommend"
  /\ UNCHANGED <<gemini_model, reviews_text, idx, predicted_ratings,
                 positive_reviews, negative_reviews, overall_rating_suggestion,
                 summarized_praise, result, response_text, parsed>>

\* lines 166-176: the point lists, generate_recommendation_with_gemini, return
Recommend ==
  /\ pc = "recommend"
  /\ LET top_praise_points == PointsOf(summarized_praise, NO_PRAISE_MSG)
         top_complaint_points == PointsOf(summarized_complaints, NO_COMPLAINTS_MSG)
         Return(recommendation) ==
           result' = AnalysisResult(top_praise_points, top_complaint_points,
                                    overall_rating_suggestion, recommendation)
     IN  IF ~GeminiAvailable(gemini_model)
         THEN Return(<<UNAVAILABLE_MSG>>) /\ UNCHANGED calls
         ELSE IF /\ ~HasFeedback(top_praise_points, NO_PRAISE_MSG)
                 /\ ~HasFeedback(top_complaint_points, NO_COMPLAINTS_MSG)
         THEN Return(<<NOT_ENOUGH_MSG>>) /\ UNCHANGED calls
         ELSE \E out \in GeminiOutcomes :
                /\ calls' = Append(calls,
                     Call("gemini", "generate_recommendation_with_gemini",
                          BuildPrompt(top_praise_points, top_complaint_points), out))
                /\ Return(HandleResponse(out))
  /\ pc' = "done"
  /\ UNCHANGED <<gemini_model, reviews_text, idx, predicted_ratings,
                 positive_reviews, negative_reviews, overall_rating_suggestion,
                 summarized_praise, summarized_complaints, response_text, parsed>>

Next ==
  \/ analyze_reviews_with_ai
  \/ analyze_reviews
  \/ ClassifyReview
  \/ SummarizePraises
  \/ SummarizePainPoints
  \/ Recommend

Spec == Init /\ [][Next]_vars

(***************************************************************************)
(* The response parser alone: a configured model has answered with parts   *)
(* and the text response_text, and lines 125-131 turn it into the list.    *)
(***************************************************************************)
LineStar == <<"*"," ","S","h","i","p"," ","f","a","s","t","e","r">>
LineDash == <<" ","-"," ","F","i","x"," ","t","h","e"," ","b","o","x"," ">>
LineProse == <<"T","o"," ","d","o",":">>
LineBold == <<"*"," ","*","*","P","a","c","k","*","*"," ","w","e","l","l">>
LineBare == <<"*">>
LineBlank == <<" ">>

LinePool == {LineStar, LineDash, LineProse, LineBold, LineBare, LineBlank}
ResponseTexts == {Join(<<"\n">>, ls) : ls \in SeqsUpTo(LinePool, MaxLines)}

InitParse ==
  /\ gemini_model = "GenerativeModel"
  /\ pc = "respond"
  /\ reviews_text = <<>>
  /\ idx = 1
  /\ predicted_ratings = <<>>
  /\ positive_reviews = <<>>
  /\ negative_reviews = <<>>
  /\ overall_rating_suggestion = UNSET
  /\ summarized_praise = UNSET
  /\ summarized_complaints = UNSET
  /\ result = NoResult
  /\ calls = <<>>
  /\ response_text \in ResponseTexts
  /\ parsed = <<>>

ReadResponse ==
  /\ pc = "respond"
  /\ parsed' = HandleResponse(GeminiResponse(TRUE, <<>>, response_text, FALSE))
  /\ pc' = "responded"
  /\ UNCHANGED <<gemini_model, reviews_text, idx, predicted_ratings,
                 positive_reviews, negative_reviews, overall_rating_suggestion,
                 summarized_praise, summarized_complaints, result, calls,
                 response_text>>

NextParse == ReadResponse

SpecParse == InitParse /\ [][NextParse]_vars

(***************************************************************************)
(* The rating sentence alone: the loop has left predicted_ratings, and      *)
(* line 161 turns it into the sentence.                                    *)
(***************************************************************************)
RatingLists == SeqsUpTo(1..5, MaxRatings)

InitRating ==
  /\ gemini_model = "GenerativeModel"
  /\ pc = "rate"
  /\ reviews_text = <<>>
  /\ idx = 1
  /\ predicted_ratings \in RatingLists
  /\ positive_reviews = <<>>
  /\ negative_reviews = <<>>
  /\ overall_rating_suggestion = UNSET
  /\ summarized_praise = UNSET
  /\ summarized_complaints = UNSET
  /\ result = NoResult
  /\ calls = <<>>
  /\ response_text = <<>>
  /\ parsed = <<>>

RateReviews ==
  /\ pc = "rate"
  /\ LET rating == OverallRating(predicted_ratings)
     IN  IF rating.raised
         THEN pc' = "raised" /\ UNCHANGED overall_rating_suggestion
         ELSE pc' = "rated" /\ overall_rating_suggestion' = rating.value
  /\ UNCHANGED <<gemini_model, reviews_text, idx, predicted_ratings,
                 positive_reviews, negative_reviews, summarized_praise,
                 summarized_complaints, result, calls, response_text, parsed>>

NextRating == RateReviews

SpecRating == InitRating /\ [][NextRating]_vars

(***************************************************************************)
(* Vocabulary of the properties.                                           *)
(***************************************************************************)
CallsTo(svc) == LET Is(c) == c.svc = svc IN SelectSeq(calls, Is)
CallsFrom(site) == LET Is(c) == c.from = site IN SelectSeq(calls, Is)
GeminiCalls == CallsTo("gemini")
PraiseCalls == CallsFrom("summarize_praises")
ComplaintCalls == CallsFrom("summarize_pain_points")

\* an analysis of a non-empty review list has returned
Finished == pc = "done" /\ reviews_text # <<>>

\* the stars a classifier outcome stands for; 0 when the call raised or its
\* label has no leading number
Stars(out) ==
  IF out.raises THEN 0
  ELSE IF out.label = Label5 THEN 5
  ELSE IF out.label = Label4 THEN 4
  ELSE IF out.label = Label3 THEN 3
  ELSE 0

\* the reviews classified so far whose outcome satisfies Want, in submission
\* order
ReviewsWhere(Want(_)) ==
  LET n == Len(CallsTo("sentiment"))
      Keep(k) == Want(calls[k].ret)
      kept == SelectSeq([k \in 1..n |-> k], Keep)
  IN  [j \in 1..Len(kept) |-> reviews_text[kept[j]]]

StarsWhere(Want(_)) ==
  LET n == Len(CallsTo("sentiment"))
      Keep(k) == Want(calls[k].ret)
      kept == SelectSeq([k \in 1..n |-> k], Keep)
  IN  [j \in 1..Len(kept) |-> Stars(calls[kept[j]].ret)]

\* s reads "Approximately X.XX out of 5 stars." with X.XX the hundredth
\* nearest to the mean of ratings
IsRoundedMeanSentence(s, ratings) ==
  /\ Len(s) >= 6
  /\ s[1] = "Approximately "
  /\ s[Len(s)] = " out of 5 stars."
  /\ LET number == SubSeq(s, 2, Len(s) - 1)
         halves == SplitOn(number, {"."})
         IsDigits(t) == t # <<>> /\ \A k \in 1..Len(t) : \E d \in 1..10 : Digits[d] = t[k]
     IN  /\ Len(halves) = 2
         /\ IsDigits(halves[1])
         /\ IsDigits(halves[2])
         /\ Len(halves[2]) = 2
         /\ LET h == 100 * DigitsVal(halves[1]) + DigitsVal(halves[2])
                d == 100 * SumSeq(ratings) - h * Len(ratings)
            IN  2 * (IF d < 0 THEN -d ELSE d) <= Len(ratings)

RatingAssigned == overall_rating_suggestion # UNSET

C1_Sentence(fallback) ==
  RatingAssigned =>
    IF predicted_ratings # <<>>
    THEN IsRoundedMeanSentence(overall_rating_suggestion, predicted_ratings)
    ELSE overall_rating_suggestion = <<fallback>>

C2_BucketsPartitionSuccesses ==
  LET Success(out) == Stars(out) > 0
      High(out) == Stars(out) >= 4
      Low(out) == Stars(out) > 0 /\ Stars(out) < 4
  IN  /\ predicted_ratings = StarsWhere(Success)
      /\ positive_reviews = ReviewsWhere(High)
      /\ negative_reviews = ReviewsWhere(Low)
      /\ Len(positive_reviews) + Len(negative_reviews) = Len(predicted_ratings)

C2_Witness ==
  /\ pc = "summarize_praises"
  /\ Len(reviews_text) = 2
  /\ calls[1].ret.raises
  /\ Stars(calls[2].ret) = 3
  /\ positive_reviews = <<>>
  /\ negative_reviews = <<reviews_text[2]>>
  /\ predicted_ratings = <<3>>

\* C3: with the model handle unconfigured no generate_content call is ever
\* made and every analysis returns the unavailable message.
C3_UnconfiguredNeverCalls ==
  gemini_model = "None" =>
    /\ GeminiCalls = <<>>
    /\ Finished => result.actionable_recommendation = <<UNAVAILABLE_MSG>>

C3_Witness ==
  /\ gemini_model = "None"
  /\ Finished
  /\ result.top_praise_points # <<NO_PRAISE_MSG>>
  /\ result.top_complaint_points # <<NO_COMPLAINTS_MSG>>

\* C4 as stated: in every returned result, zero reviews included, neither
\* point list is empty.
C4_PointsNeverEmptyAsClaimed ==
  pc = "done" =>
    /\ result.top_praise_points # <<>>
    /\ result.top_complaint_points # <<>>

\* C4 as amended: on a non-empty review list neither point list is empty and
\* a bucket that yields no sentences gives exactly the one-element
\* placeholder list; on zero reviews both point lists are empty.
C4_PointsNeverEmptyWhenReviews ==
  /\ Finished =>
       /\ result.top_praise_points # <<>>
       /\ result.top_complaint_points # <<>>
       /\ filter_positive_sentences(positive_reviews) = <<>>
            => result.top_praise_points = <<<<"No specific praise points found.">>>>
       /\ filter_negative_sentences(negative_reviews) = <<>>
            => result.top_complaint_points = <<<<"No specific complaint points found.">>>>
  /\ (pc = "done" /\ reviews_text = <<>>) =>
       /\ result.top_praise_points = <<>>
       /\ result.top_complaint_points = <<>>

C4_Witness ==
  /\ Finished
  /\ positive_reviews # <<>>
  /\ filter_positive_sentences(positive_reviews) = <<>>
  /\ result.top_praise_points = <<NO_PRAISE_MSG>>
  /\ negative_reviews = <<>>
  /\ result.top_complaint_points = <<NO_COMPLAINTS_MSG>>

\* C5: once generate_content is called, a response without parts and with a
\* block reason gives the safety-block string naming the reason, one without
\* parts and without a reason gives "Recommendation could not be generated.",
\* an exception of the call or of reading the response gives the API-error
\* string, and nothing is raised to the caller.
C5_ResponseOutcomesMapped ==
  /\ pc # "raised"
  /\ (Finished /\ GeminiCalls # <<>>) =>
       LET out == GeminiCalls[1].ret
           rec == result.actionable_recommendation
       IN  /\ out.raises =>
                rec = <<<<"Could not generate AI recommendation due to an API error.">>>>
           /\ (~out.raises /\ ~out.parts /\ out.block_reason # <<>>) =>
                /\ Len(rec) = 1
                /\ rec[1][1] = "Recommendation could not be generated due to a content safety block ("
                /\ SubSeq(rec[1], 2, Len(rec[1]) - 1) = out.block_reason
           /\ (~out.raises /\ ~out.parts /\ out.block_reason = <<>>) =>
                rec = <<<<"Recommendation could not be generated.">>>>
           /\ (~out.raises /\ out.parts /\ out.text_raises) =>
                rec = <<<<"Could not generate AI recommendation due to an API error.">>>>

C5_Witness ==
  /\ Finished
  /\ GeminiCalls # <<>>
  /\ ~GeminiCalls[1].ret.raises
  /\ ~GeminiCalls[1].ret.parts
  /\ GeminiCalls[1].ret.block_reason = <<"SAFETY">>
  /\ result.actionable_recommendation = <<SafetyBlockMsg(<<"SAFETY">>)>>

\* C6: for every review list and every combination of failures of the three
\* services the analysis goes on until it returns, what it returns has
\* exactly the four fields, and no exception reaches the caller.
C6_NothingEscapes ==
  /\ pc # "raised"
  /\ pc = "done" =>
       DOMAIN result = {"top_praise_points", "top_complaint_points",
                        "overall_rating_suggestion", "actionable_recommendation"}

\* the guard of the step that the state waits for holds: a step needs its
\* place in the code and, in the loop, a review left to classify
CanStep ==
  \/ pc \in {"idle", "summarize_praises", "summarize_pain_points", "recommend"}
  \/ pc = "classify" /\ idx \in 1..Len(reviews_text)

\* an upper bound of the steps still to take
StepsLeft ==
  IF pc = "idle" THEN MaxReviews + 4
  ELSE IF pc = "classify" THEN (Len(reviews_text) - idx + 1) + 3
  ELSE IF pc = "summarize_praises" THEN 3
  ELSE IF pc = "summarize_pain_points" THEN 2
  ELSE IF pc = "recommend" THEN 1
  ELSE 0

C6_AlwaysReturnsFourFields ==
  /\ [](C6_NothingEscapes /\ (pc = "done" \/ CanStep))
  /\ [][StepsLeft' < StepsLeft]_vars

C6_Witness ==
  /\ Finished
  /\ \E k \in 1..Len(calls) : calls[k].svc = "sentiment" /\ calls[k].ret.raises
  /\ \E k \in 1..Len(calls) : calls[k].svc = "summarizer" /\ calls[k].ret.raises
  /\ \E k \in 1..Len(calls) : calls[k].svc = "gemini" /\ calls[k].ret.raises
  /\ predicted_ratings # <<>>

\* C7 as stated: with the model configured every analysis of a non-empty
\* review list makes exactly one generate_content call.
C7_ExactlyOneCallAsClaimed ==
  (Finished /\ gemini_model # "None") => Len(GeminiCalls) = 1

\* C7 as amended: with the model configured an analysis of a non-empty review
\* list never makes more than one generate_content call; it makes exactly one
\* when at least one point list is not its placeholder and none when both
\* are.
C7_OneCallUnlessNoFeedback ==
  /\ Len(GeminiCalls) <= 1
  /\ (Finished /\ gemini_model # "None") =>
       Len(GeminiCalls) =
         IF /\ result.top_praise_points = <<<<"No specific praise points found.">>>>
            /\ result.top_complaint_points = <<<<"No specific complaint points found.">>>>
         THEN 0 ELSE 1

C7_Witness ==
  /\ Finished
  /\ gemini_model # "None"
  /\ GeminiCalls = <<>>
  /\ predicted_ratings # <<>>
  /\ result.actionable_recommendation = <<NOT_ENOUGH_MSG>>

\* the place of a call in the order the pipeline makes its calls in
CallRank(c) ==
  IF c.svc = "sentiment" THEN 1
  ELSE IF c.svc = "summarizer" /\ c.from = "summarize_praises" THEN 2
  ELSE IF c.svc = "summarizer" THEN 3
  ELSE 4

\* arg is the first 512 characters of review
IsFirst512(arg, review) ==
  /\ Len(arg) = (IF Len(review) < 512 THEN Len(review) ELSE 512)
  /\ \A k \in 1..Len(arg) : arg[k] = review[k]

C8_LogOrdered ==
  LET n == Len(CallsTo("sentiment"))
  IN  /\ n = (IF pc = "idle" THEN 0 ELSE IF pc = "classify" THEN idx - 1
              ELSE Len(reviews_text))
      /\ \A k \in 1..n :
           /\ calls[k].svc = "sentiment"
           /\ IsFirst512(calls[k].arg, reviews_text[k])
      /\ \A i \in 1..Len(calls) : \A j \in (i + 1)..Len(calls) :
           /\ CallRank(calls[i]) <= CallRank(calls[j])
           /\ CallRank(calls[i]) = CallRank(calls[j]) => CallRank(calls[i]) = 1

\* C8: the classifier is called once per review, in submission order, with
\* the first 512 characters of the review and without retry; no summarizer
\* call is made before the last classification has ended; praise is
\* summarized before complaints; and the generative call is made only after
\* both summarization steps have ended.
C8_CallsStrictlyOrdered ==
  /\ []C8_LogOrdered
  /\ [][(Len(CallsTo("summarizer"))' > Len(CallsTo("summarizer")))
          => (idx = Len(reviews_text) + 1 /\ pc # "classify")]_vars
  /\ [][(Len(GeminiCalls)' > Len(GeminiCalls))
          => (summarized_praise # UNSET /\ summarized_complaints # UNSET)]_vars

C8_Witness ==
  /\ Finished
  /\ Len(reviews_text) = 2
  /\ Len(reviews_text[1]) > 512
  /\ Len(calls[1].arg) = 512
  /\ Len(calls) = 5

\* the prompt shows points under the heading
InPrompt(prompt, heading, text) == Contains(prompt, heading \o text)

\* what C9 says of one bucket; called says whether the generative call is
\* claimed to be made
C9_Bucket(site_calls, points, heading, sentences, placeholder, called) ==
  /\ (site_calls # <<>> /\ site_calls[1].ret.raises) =>
       /\ points = <<<<"Could not generate summary.">>>>
       /\ called =>
            /\ Len(GeminiCalls) = 1
            /\ InPrompt(GeminiCalls[1].arg, heading, <<"Could not generate summary.">>)
  /\ sentences = <<>> => (site_calls = <<>> /\ points = <<placeholder>>)
  /\ sentences # <<>> => Len(site_calls) = 1

C9_Both(called) ==
  Finished =>
    /\ C9_Bucket(PraiseCalls, result.top_praise_points, PROMPT_PRAISE,
                 filter_positive_sentences(positive_reviews),
                 <<"No specific praise points found.">>, called)
    /\ C9_Bucket(ComplaintCalls, result.top_complaint_points, PROMPT_COMPLAINTS,
                 filter_negative_sentences(negative_reviews),
                 <<"No specific complaint points found.">>, called)

\* C9 as stated: a summarizer failure on a non-empty sentence set gives the
\* point list ["Could not generate summary."], which the recommendation step
\* takes for feedback, puts into the prompt and makes the generative call
\* with; an empty sentence set gives no summarizer call and the placeholder.
C9_SummaryFailureAsClaimed == C9_Both(TRUE)

\* C9 as amended: the same, the generative call and its prompt being claimed
\* only when the generative model is configured.
C9_SummaryFailureIsFeedback == C9_Both(gemini_model # "None")

C9_Witness ==
  /\ Finished
  /\ gemini_model # "None"
  /\ PraiseCalls # <<>>
  /\ PraiseCalls[1].ret.raises
  /\ ComplaintCalls = <<>>
  /\ Len(GeminiCalls) = 1

\* what C10 says the parser returns for a response text
ClaimedPoint(line) == Strip(Tail(Strip(line)))

ClaimedParse(text) ==
  LET lines == SplitOn(Strip(text), {"\n"})
      IsBullet(line) == Strip(line) # <<>> /\ Strip(line)[1] \in {"*", "-"}
      bullets == SelectSeq(lines, IsBullet)
  IN  IF bullets # <<>>
      THEN [k \in 1..Len(bullets) |-> ClaimedPoint(bullets[k])]
      ELSE <<Strip(text)>>

\* C10: for a response with parts, the result is the lines whose trimmed text
\* starts with '*' or '-', in order, each without its single leading marker
\* and surrounding whitespace and otherwise unchanged; with no such line it
\* is the one-element list of the trimmed text.
C10_BulletsAsClaimed ==
  pc = "responded" => parsed = ClaimedParse(response_text)

====
